---- MODULE Spec2Model ----
(***************************************************************************)
(* State-machine model of the gene presence visualisation hook             *)
(* (src/src/hooks/useGeneVisualization.ts), of the ControlPanel guard in   *)
(* front of it, and of the run scans of the layout effect and the canvas.  *)
(*                                                                         *)
(* The React state object is the tuple of variables below; every setState  *)
(* updater is one atomic action.  setTimeout(.., 10) callbacks are a FIFO  *)
(* queue (pending); fetches of reference datasets are a bag (inflight)     *)
(* whose responses arrive in any order.                                    *)
(***************************************************************************)
EXTENDS Integers, Sequences, FiniteSets, TLC

(***************************************************************************)
(* Bounds of the model                                                     *)
(***************************************************************************)
\* deferred callbacks that may wait in the timer queue at once
MaxPending == 1
\* valid difference requests of one session under Spec
MaxDiffs == 1
\* valid difference requests of one session under SpecRepeat
MaxRepeatDiffs == 2
\* fetches of one dataset file that may be in flight at once
MaxInflight == 1
\* longest sequence of level values handed to the run scans
MaxRunLen == 4
\* deferred callbacks that may wait at once in the sessions of SpecBusy
MaxOverlap == 2

(***************************************************************************)
(* Program constants                                                       *)
(***************************************************************************)
DATASETS == <<"GTDB214_lineage_ordered_custom_order.json", "GTDB214_lineage_ordered.json">>

DEFAULT_DATASET == DATASETS[1]

ALL_LEVELS == <<"phylum", "class", "order", "family", "genus">>

(***************************************************************************)
(* Inputs: the contents of the two dataset files, the TSV documents a user *)
(* may upload, and the arguments handed to the hook's operations.          *)
(***************************************************************************)
Rec(a, p, c, o, f, g) ==
    [assembly |-> a, phylum |-> p, class |-> c, order |-> o, family |-> f, genus |-> g]

\* the JSON array each dataset file deserialises to: the files differ in the
\* number of records and in the ordinal a shared assembly gets
DatasetJson(fileName) ==
    IF fileName = DATASETS[1]
    THEN << Rec("X", "P1", "C1", "O1", "F1", "G1"),
            Rec("Y", "P2", "C2", "O2", "F2", "G2") >>
    ELSE << Rec("Y", "P2", "C2", "O2", "F2", "G2") >>

\* A TSV document after tsvText.trim().split(/\r?\n/): a sequence of lines,
\* each line given by its tab-separated fields (an empty line is <<"">>).
TsvDocs ==
    << \* two genes, one row per assembly, one key unknown to the reference set
       << <<"Assembly", "gA_count", "gB_count">>,
          <<"X", "2", "1">>,
          <<"Y", "0", "3">>,
          <<"W", "1", "1">> >>,
       \* a duplicated header column, a column that is no count, a duplicated
       \* key row, a ragged row, a non-numeric field and an empty line
       << <<"Assembly", "gA_count", "note", "gA_count", "gB_count">>,
          <<"X", "2", "x", "0", "1">>,
          <<"">>,
          <<"X", "0">>,
          <<"Y", "x", "", "3", "2">> >>,
       \* gene columns named without the _count suffix
       << <<"Assembly", "gA", "gB">>,
          <<"X", "2", "0">>,
          <<"Y", "0", "3">> >>,
       \* a document that covers only a part of the reference assemblies
       << <<"Assembly", "gA_count", "gB_count">>,
          <<"X", "2", "1">> >> >>

\* the documents uploaded in the general sessions
TsvInputs == 1 .. Len(TsvDocs) - 1

\* the document uploaded in the sessions of SpecPartial
PartialTsvInputs == { Len(TsvDocs) }

DiffOptionInputs ==
    { [gene1 |-> "gA_count", gene2 |-> "gB_count", useCounts |-> TRUE],
      [gene1 |-> "gA_count", gene2 |-> "gB_count", useCounts |-> FALSE],
      [gene1 |-> "gB_count", gene2 |-> "gB_count", useCounts |-> TRUE],
      [gene1 |-> "",         gene2 |-> "gA_count", useCounts |-> FALSE] }

LineageClickInputs ==
    { [level |-> "phylum", category |-> "P2"] }

SizeFilterInputs ==
    { [level |-> "phylum", threshold |-> 2] }

SearchTermInputs == { "G1", "Q9" }

(***************************************************************************)
(* JavaScript helpers                                                      *)
(***************************************************************************)
EmptyMap == [k \in {} |-> 0]

MapSet(m, k, v) == (k :> v) @@ m

Range(s) == { s[i] : i \in DOMAIN s }

\* Array.prototype.map(d => d.assembly)
AssemblyIds(recs) == [i \in DOMAIN recs |-> recs[i].assembly]

RECURSIVE SelectIdx(_, _, _)
\* Array.prototype.filter with a predicate on the element: keeps order
SelectIdx(s, keep, i) ==
    IF i > Len(s) THEN <<>>
    ELSE (IF s[i] \in keep THEN <<s[i]>> ELSE <<>>) \o SelectIdx(s, keep, i + 1)

Filter(s, keep) == SelectIdx(s, keep, 1)

\* new Map(pairs): a later pair with the same key overwrites the earlier one;
\* ordinals are zero-based
IndexMap(names) ==
    [n \in Range(names) |->
        (CHOOSE i \in DOMAIN names :
            names[i] = n /\ \A j \in DOMAIN names : names[j] = n => j <= i) - 1]

\* Array.prototype.indexOf: first position, zero-based, -1 when absent
IndexOf(s, x) ==
    IF x \in Range(s)
    THEN (CHOOSE i \in DOMAIN s : s[i] = x /\ \A j \in DOMAIN s : s[j] = x => i <= j) - 1
    ELSE -1

\* the gene columns of the uploaded files: name |-> name.replace(/_count$/, '')
CountStem == [gA_count |-> "gA", gB_count |-> "gB"]

\* String.prototype.endsWith('_count')
EndsWithCount(h) == h \in DOMAIN CountStem

\* String.prototype.replace(/_count$/, '')
StripCount(g) == IF EndsWithCount(g) THEN CountStem[g] ELSE g

\* the decimal literals that occur in the documents
NumericLiteral == [x \in {"0", "1", "2", "3"} |->
                     CASE x = "0" -> 0 [] x = "1" -> 1 [] x = "2" -> 2 [] x = "3" -> 3]

\* unary plus on row[i]: a missing field (undefined) and a non-numeric string
\* give NaN, the empty string gives 0
UnaryPlus(row, i) ==
    IF i < 0 \/ i >= Len(row) THEN [nan |-> TRUE, v |-> 0]
    ELSE IF row[i + 1] = "" THEN [nan |-> FALSE, v |-> 0]
    ELSE IF row[i + 1] \in DOMAIN NumericLiteral
         THEN [nan |-> FALSE, v |-> NumericLiteral[row[i + 1]]]
         ELSE [nan |-> TRUE, v |-> 0]

\* n || 0
OrZero(n) == IF n.nan \/ n.v = 0 THEN 0 ELSE n.v

\* cm[g] || 0 on a count object
CountOr0(cm, g) == IF g \in DOMAIN cm THEN cm[g] ELSE 0

(***************************************************************************)
(* The matrix: null, or a Uint8Array given by its cells                    *)
(***************************************************************************)
NullMatrix == [isNull |-> TRUE, cells |-> <<>>]

Uint8Array(cells) == [isNull |-> FALSE, cells |-> cells]

Zeros(n) == [i \in 1 .. n |-> 0]

\* typed-array store at a zero-based index: out-of-range stores are ignored
Store(cells, idx, v) ==
    IF idx >= 0 /\ idx < Len(cells) THEN [cells EXCEPT ![idx + 1] = v] ELSE cells

(***************************************************************************)
(* State                                                                   *)
(***************************************************************************)
VARIABLES
    originalRaw, raw, assemblies, asmCount, asmIndex,   \* reference data
    totalInput, geneNames, matrix, countMap, geneIndex, \* gene data
    showPresence, activeGenes,
    isLoading, loadingMessage,
    dataset,        \* the selected dataset file
    inflight,       \* fetches in flight, per dataset file
    pending,        \* setTimeout callbacks not yet run, in firing order
    crashed,        \* a state updater threw: the component tree is gone
    runInput, runs, canvasRuns,   \* the run scans, as functions of their input
    normalizeLevel, containerWidth, coordMap, widthMap,   \* layout state
    layoutDeps,     \* the dependency values the layout effect last ran with
    built           \* the last result of DataProcessor.buildLayout

refVars == <<originalRaw, raw, assemblies, asmCount, asmIndex>>
geneVars == <<totalInput, geneNames, matrix, countMap, geneIndex>>
viewVars == <<showPresence, activeGenes>>
busyVars == <<isLoading, loadingMessage>>
envVars == <<dataset, inflight, pending, crashed>>
layoutVars == <<normalizeLevel, containerWidth, coordMap, widthMap, layoutDeps, built>>
runVars == <<runInput, runs, canvasRuns, layoutVars>>

vars == <<refVars, geneVars, viewVars, busyVars, envVars, runVars>>

\* useState initial value; the mount effect has started the first fetch
InitHook ==
    /\ originalRaw = <<>>
    /\ raw = <<>>
    /\ assemblies = <<>>
    /\ asmCount = 0
    /\ asmIndex = EmptyMap
    /\ totalInput = 0
    /\ geneNames = <<>>
    /\ matrix = NullMatrix
    /\ countMap = EmptyMap
    /\ geneIndex = EmptyMap
    /\ showPresence = TRUE
    /\ activeGenes = <<>>
    /\ isLoading = FALSE
    /\ loadingMessage = ""
    /\ dataset = DEFAULT_DATASET
    /\ inflight = [f \in Range(DATASETS) |-> IF f = DEFAULT_DATASET THEN 1 ELSE 0]
    /\ pending = <<>>
    /\ crashed = FALSE

\* normalizeLevel: null
NullLevel == "<null>"

\* useState(1200)
InitialWidth == 1200

\* no call of DataProcessor.buildLayout has been made
NotBuilt == [called |-> FALSE, threw |-> FALSE, input |-> <<>>, mode |-> NullLevel,
             coordMap |-> EmptyMap, widthMap |-> EmptyMap]

\* coordMap: new Map(), widthMap: new Map(), normalizeLevel: null; the layout
\* effect has run once on mount, with an empty list
InitLayout ==
    /\ normalizeLevel = NullLevel
    /\ containerWidth = InitialWidth
    /\ coordMap = EmptyMap
    /\ widthMap = EmptyMap
    /\ layoutDeps = <<InitialWidth, 0, NullLevel>>
    /\ built = NotBuilt

Init ==
    /\ InitHook
    /\ InitLayout
    /\ runInput = <<>>
    /\ runs = <<>>
    /\ canvasRuns = <<>>

(***************************************************************************)
(* Reference dataset                                                       *)
(***************************************************************************)
\* setDataset(fileName); the effect on [dataset] starts loadGTDBData
SetDataset(fileName) ==
    /\ ~crashed
    /\ fileName # dataset
    /\ inflight[fileName] < MaxInflight
    /\ dataset' = fileName
    /\ inflight' = [inflight EXCEPT ![fileName] = @ + 1]
    /\ UNCHANGED <<refVars, geneVars, viewVars, busyVars, pending, crashed, runVars>>

\* loadGTDBData: the response of a fetch arrives and is stored
LoadGTDBData(fileName) ==
    /\ ~crashed
    /\ inflight[fileName] > 0
    /\ inflight' = [inflight EXCEPT ![fileName] = @ - 1]
    /\ LET jsonData == DatasetJson(fileName) IN
        /\ originalRaw' = jsonData
        /\ raw' = jsonData
        /\ assemblies' = AssemblyIds(jsonData)
        /\ asmCount' = Len(jsonData)
        /\ asmIndex' = IndexMap(AssemblyIds(jsonData))
    /\ UNCHANGED <<geneVars, viewVars, busyVars, dataset, pending, crashed, runVars>>

\* loadGTDBData: fetch or response.json() rejects; the catch block only alerts
LoadGTDBDataFails(fileName) ==
    /\ ~crashed
    /\ inflight[fileName] > 0
    /\ inflight' = [inflight EXCEPT ![fileName] = @ - 1]
    /\ UNCHANGED <<refVars, geneVars, viewVars, busyVars, dataset, pending, crashed, runVars>>

(***************************************************************************)
(* Deferred operations: the dispatching call shows the busy indicator and  *)
(* schedules the callback; the callback's updater runs later, atomically.  *)
(***************************************************************************)
\* setState(prev => ({...prev, isLoading: true, loadingMessage})) ; setTimeout(cb, 10),
\* while fewer than max callbacks wait
Enqueue(task, message, max) ==
    /\ ~crashed
    /\ Len(pending) < max
    /\ isLoading' = TRUE
    /\ loadingMessage' = message
    /\ pending' = Append(pending, task)
    /\ UNCHANGED <<refVars, geneVars, viewVars, dataset, inflight, crashed, runVars>>

Dispatch(task, message) == Enqueue(task, message, MaxPending)

\* the timer whose callback is op fires next
Fires(op) ==
    /\ ~crashed
    /\ pending # <<>>
    /\ Head(pending).op = op
    /\ pending' = Tail(pending)

\* the tail of every deferred updater: isLoading: false, loadingMessage: ''
Idle ==
    /\ isLoading' = FALSE
    /\ loadingMessage' = ""

(***************************************************************************)
(* loadTSVData                                                             *)
(***************************************************************************)
\* lines.shift()?.split('\t') || []
TsvHeader(doc) == doc[1]

\* lines.filter(Boolean): the empty lines are dropped
TsvRows(doc) == Filter(Tail(doc), { l \in Range(Tail(doc)) : l # <<"">> })

\* the count object cm built for one row
RowCounts(header, names, row) ==
    [g \in Range(names) |-> OrZero(UnaryPlus(row, IndexOf(header, g)))]

\* matrix[gi * asmCount + ai] = 1 for every gene of the row with cnt > 0
SetPresence(cells, names, cm, n, ai) ==
    [i \in DOMAIN cells |->
        IF \E gi \in DOMAIN names : (gi - 1) * n + ai = i - 1 /\ cm[names[gi]] > 0
        THEN 1 ELSE cells[i]]

RECURSIVE ProcessRows(_, _, _, _, _, _, _, _)
\* rows.forEach: rows whose key is not in the assembly index are skipped
ProcessRows(rows, k, header, names, idx, n, cells, cmap) ==
    IF k > Len(rows) THEN [cells |-> cells, countMap |-> cmap]
    ELSE LET row == rows[k]
             asm == row[1]
         IN  IF asm \notin DOMAIN idx
             THEN ProcessRows(rows, k + 1, header, names, idx, n, cells, cmap)
             ELSE LET cm == RowCounts(header, names, row) IN
                  ProcessRows(rows, k + 1, header, names, idx, n,
                              SetPresence(cells, names, cm, n, idx[asm]),
                              MapSet(cmap, asm, cm))

LoadTSVData(d) ==
    Dispatch([op |-> "loadTSVData", doc |-> d], "Processing TSV data...")

RunLoadTSVData ==
    /\ Fires("loadTSVData")
    /\ LET doc == TsvDocs[Head(pending).doc]
           header == TsvHeader(doc)
           rows == TsvRows(doc)
           names == Filter(header, { h \in Range(header) : EndsWithCount(h) })
           out == ProcessRows(rows, 1, header, names, asmIndex, asmCount,
                              Zeros(Len(names) * asmCount), EmptyMap)
       IN  /\ totalInput' = Len(rows)
           /\ geneNames' = names
           /\ geneIndex' = IndexMap(names)
           /\ matrix' = Uint8Array(out.cells)
           /\ countMap' = out.countMap
    /\ Idle
    /\ UNCHANGED <<refVars, viewVars, dataset, inflight, crashed, runVars>>

(***************************************************************************)
(* togglePresence                                                          *)
(***************************************************************************)
\* a toggle that clears every cell instead of inverting it
FlipCellsClear(cells) == [i \in DOMAIN cells |-> 0]

\* newMatrix[i] = prev.matrix[i] ? 0 : 1
FlipCells(cells) == [i \in DOMAIN cells |-> IF cells[i] # 0 THEN 0 ELSE 1]

TogglePresence ==
    /\ ~crashed
    /\ ~matrix.isNull
    /\ matrix' = Uint8Array(FlipCells(matrix.cells))
    /\ showPresence' = ~showPresence
    /\ UNCHANGED <<refVars, totalInput, geneNames, countMap, geneIndex, activeGenes,
                   busyVars, envVars, runVars>>

(***************************************************************************)
(* addDifferenceVisualization                                              *)
(***************************************************************************)
\* a guard that lets a request naming the same gene twice through
DiffGuardNoEq(o) == o.gene1 = "" \/ o.gene2 = ""

\* if (!gene1 || !gene2 || gene1 === gene2): the updater only clears the indicator
DiffGuard(o) == o.gene1 = "" \/ o.gene2 = "" \/ o.gene1 = o.gene2

\* label(a, b): the stems joined by '>' (counts) or '-' (presence)
Label(a, b, useCounts) ==
    StripCount(a) \o (IF useCounts THEN ">" ELSE "-") \o StripCount(b)

\* p1 = useCounts ? (c1 > c2) : (c1 > 0 && c2 === 0)
Exceeds(c1, c2, useCounts) ==
    IF useCounts THEN c1 > c2 ELSE c1 > 0 /\ c2 = 0

Bit(p) == IF p THEN 1 ELSE 0

RECURSIVE DiffRows(_, _, _, _, _, _, _, _, _)
\* prev.assemblies.forEach: one pass over the active list, writing the two new
\* rows and the two new keys of each active assembly's count object
DiffRows(asms, k, idx, n, oldN, o, names, cells, cmap) ==
    IF k > Len(asms) THEN [cells |-> cells, countMap |-> cmap]
    ELSE LET a == asms[k] IN
         IF a \notin DOMAIN idx
         THEN DiffRows(asms, k + 1, idx, n, oldN, o, names, cells, cmap)
         ELSE LET ai == idx[a]
                  cm == IF a \in DOMAIN cmap THEN cmap[a] ELSE EmptyMap
                  c1 == CountOr0(cm, o.gene1)
                  c2 == CountOr0(cm, o.gene2)
                  p1 == Exceeds(c1, c2, o.useCounts)
                  p2 == Exceeds(c2, c1, o.useCounts)
                  cells1 == Store(cells, oldN * n + ai, Bit(p1))
                  cells2 == Store(cells1, (oldN + 1) * n + ai, Bit(p2))
                  cm2 == MapSet(MapSet(cm, names[1], Bit(p1)), names[2], Bit(p2))
              IN  DiffRows(asms, k + 1, idx, n, oldN, o, names, cells2,
                           MapSet(cmap, a, cm2))

\* a reallocation that drops the old contents
CopyIntoFresh(len, old) == [i \in 1 .. len |-> 0]

\* new Uint8Array(len) followed by newMatrix.set(old)
CopyInto(len, old) == [i \in 1 .. len |-> IF i <= Len(old) THEN old[i] ELSE 0]

\* valid deferred addDifferenceVisualization calls not yet run
PendingDiffs ==
    Cardinality({ i \in DOMAIN pending :
                    /\ pending[i].op = "addDifferenceVisualization"
                    /\ ~DiffGuard(pending[i].options) })

\* the session has room for one more valid request within the bound
DiffBudget(o, max) ==
    DiffGuard(o) \/ Len(activeGenes) + 2 * (PendingDiffs + 1) <= 2 * max

AddDifferenceVisualization(o) ==
    Dispatch([op |-> "addDifferenceVisualization", options |-> o],
                "Creating gene comparison visualization...")

\* ControlPanel.handleAddDifference: the selects offer '' and the gene names
HandleAddDifference(o) ==
    /\ o.gene1 \in Range(geneNames) \cup {""}
    /\ o.gene2 \in Range(geneNames) \cup {""}
    /\ o.gene1 # "" /\ o.gene2 # "" /\ o.gene1 # o.gene2
    /\ AddDifferenceVisualization(o)

\* the updater returns early on an invalid request
RunAddDifferenceInvalid ==
    /\ Fires("addDifferenceVisualization")
    /\ DiffGuard(Head(pending).options)
    /\ Idle
    /\ UNCHANGED <<refVars, geneVars, viewVars, dataset, inflight, crashed, runVars>>

\* newMatrix.set(prev.matrix) throws a RangeError when the old array is longer
\* than the new one
DiffThrows == Len(matrix.cells) > (Len(geneNames) + 2) * asmCount

RunAddDifference ==
    /\ Fires("addDifferenceVisualization")
    /\ ~DiffGuard(Head(pending).options)
    /\ ~DiffThrows
    /\ LET o == Head(pending).options
           oldN == Len(geneNames)
           name1 == Label(o.gene1, o.gene2, o.useCounts)
           name2 == Label(o.gene2, o.gene1, o.useCounts)
           out == DiffRows(assemblies, 1, asmIndex, asmCount, oldN, o, <<name1, name2>>,
                           CopyInto((oldN + 2) * asmCount, matrix.cells), countMap)
       IN  /\ geneNames' = geneNames \o <<name1, name2>>
           /\ geneIndex' = MapSet(MapSet(geneIndex, name1, oldN), name2, oldN + 1)
           /\ matrix' = Uint8Array(out.cells)
           /\ countMap' = out.countMap
           /\ activeGenes' = activeGenes \o <<name1, name2>>
    /\ Idle
    /\ UNCHANGED <<refVars, totalInput, showPresence, dataset, inflight, crashed, runVars>>

\* the updater throws: nothing is committed and the tree is unmounted
RunAddDifferenceThrows ==
    /\ Fires("addDifferenceVisualization")
    /\ ~DiffGuard(Head(pending).options)
    /\ DiffThrows
    /\ crashed' = TRUE
    /\ UNCHANGED <<refVars, geneVars, viewVars, busyVars, dataset, inflight, runVars>>

(***************************************************************************)
(* Filters                                                                 *)
(***************************************************************************)
\* a filter updater that stores the records and forgets the id list
SetActiveRawOnly(filtered) ==
    /\ raw' = filtered
    /\ Idle
    /\ UNCHANGED <<originalRaw, assemblies, asmCount, asmIndex, geneVars, viewVars,
                   dataset, inflight, crashed, runVars>>

\* the tail shared by the filter updaters: raw: filtered, assemblies: ids
SetActive(filtered) ==
    /\ raw' = filtered
    /\ assemblies' = AssemblyIds(filtered)
    /\ Idle
    /\ UNCHANGED <<originalRaw, asmCount, asmIndex, geneVars, viewVars,
                   dataset, inflight, crashed, runVars>>

FilterByLineage(f) ==
    Dispatch([op |-> "filterByLineage", level |-> f.level, category |-> f.category],
             "Filtering by " \o f.level \o ": " \o f.category \o "...")

\* an updater that filters the reference list instead of the current one
RunFilterByLineageStale ==
    /\ Fires("filterByLineage")
    /\ LET t == Head(pending) IN
       SetActive(Filter(originalRaw, { d \in Range(originalRaw) : d[t.level] = t.category }))

RunFilterByLineage ==
    /\ Fires("filterByLineage")
    /\ LET t == Head(pending) IN
       SetActive(Filter(raw, { d \in Range(raw) : d[t.level] = t.category }))

\* a count that leaves the record itself out
CountAtLevelOthers(recs, level, value) ==
    Cardinality({ i \in DOMAIN recs : recs[i][level] = value }) - 1

\* d3.rollup(prev.raw, v => v.length, d => d[level]).get(value) || 0
CountAtLevel(recs, level, value) ==
    Cardinality({ i \in DOMAIN recs : recs[i][level] = value })

FilterBySize(f) ==
    Dispatch([op |-> "filterBySize", level |-> f.level, threshold |-> f.threshold],
             "Filtering by " \o f.level \o " size (min: " \o ToString(f.threshold) \o ")...")

RunFilterBySize ==
    /\ Fires("filterBySize")
    /\ LET t == Head(pending) IN
       SetActive(Filter(raw, { d \in Range(raw) :
                                 CountAtLevel(raw, t.level, d[t.level]) >= t.threshold }))

ResetFilters == Dispatch([op |-> "resetFilters"], "Resetting filters...")

\* a reset that keeps the filtered list
RunResetFiltersKeep ==
    /\ Fires("resetFilters")
    /\ SetActive(raw)

RunResetFilters ==
    /\ Fires("resetFilters")
    /\ SetActive(originalRaw)

\* a coverage test that lets records without a count entry pass
HasCoverageOrAbsent(cmap, a) ==
    a \notin DOMAIN cmap \/ \E g \in DOMAIN cmap[a] : cmap[a][g] > 0

\* cm && Object.values(cm).some(c => c > 0)
HasCoverage(cmap, a) == a \in DOMAIN cmap /\ \E g \in DOMAIN cmap[a] : cmap[a][g] > 0

FilterAllZeroAssemblies ==
    Dispatch([op |-> "filterAllZeroAssemblies"], "Filtering zero assemblies...")

RunFilterAllZeroAssemblies ==
    /\ Fires("filterAllZeroAssemblies")
    /\ SetActive(Filter(raw, { d \in Range(raw) : HasCoverage(countMap, d.assembly) }))

\* a lookup of the term in the active list instead of the reference list
LevelsOfActive(term) ==
    { i \in DOMAIN ALL_LEVELS : \E d \in Range(raw) : d[ALL_LEVELS[i]] = term }

\* ALL_LEVELS.find(l => prev.originalRaw.some(d => d[l] === searchTerm))
LevelsOf(term) ==
    { i \in DOMAIN ALL_LEVELS : \E d \in Range(originalRaw) : d[ALL_LEVELS[i]] = term }

SearchLineage(term) ==
    /\ term # ""
    /\ Dispatch([op |-> "searchLineage", term |-> term],
                "Searching for lineage: " \o term \o "...")

RunSearchLineage ==
    /\ Fires("searchLineage")
    /\ LET term == Head(pending).term IN
       IF LevelsOf(term) = {}
       THEN /\ Idle
            /\ UNCHANGED <<refVars, geneVars, viewVars, dataset, inflight, crashed, runVars>>
       ELSE LET level == ALL_LEVELS[CHOOSE i \in LevelsOf(term) :
                                       \A j \in LevelsOf(term) : i <= j]
            IN  SetActive(Filter(raw, { d \in Range(raw) : d[level] = term }))

(***************************************************************************)
(* The hook as a state machine                                             *)
(***************************************************************************)
Next ==
    \/ \E f \in Range(DATASETS) : SetDataset(f)
    \/ \E f \in Range(DATASETS) : LoadGTDBData(f)
    \/ \E f \in Range(DATASETS) : LoadGTDBDataFails(f)
    \/ \E d \in TsvInputs : LoadTSVData(d)
    \/ RunLoadTSVData
    \/ TogglePresence
    \/ \E o \in DiffOptionInputs : DiffBudget(o, MaxDiffs) /\ AddDifferenceVisualization(o)
    \/ \E o \in DiffOptionInputs : DiffBudget(o, MaxDiffs) /\ HandleAddDifference(o)
    \/ RunAddDifferenceInvalid
    \/ RunAddDifference
    \/ RunAddDifferenceThrows
    \/ \E f \in LineageClickInputs : FilterByLineage(f)
    \/ RunFilterByLineage
    \/ \E f \in SizeFilterInputs : FilterBySize(f)
    \/ RunFilterBySize
    \/ ResetFilters
    \/ RunResetFilters
    \/ FilterAllZeroAssemblies
    \/ RunFilterAllZeroAssemblies
    \/ \E t \in SearchTermInputs : SearchLineage(t)
    \/ RunSearchLineage

Spec == Init /\ [][Next]_vars

\* sessions that repeat difference synthesis, on one reference dataset
NextRepeat ==
    \/ \E f \in Range(DATASETS) : LoadGTDBData(f)
    \/ \E d \in TsvInputs : LoadTSVData(d)
    \/ RunLoadTSVData
    \/ TogglePresence
    \/ \E o \in DiffOptionInputs : DiffBudget(o, MaxRepeatDiffs) /\ AddDifferenceVisualization(o)
    \/ RunAddDifferenceInvalid
    \/ RunAddDifference
    \/ \E f \in LineageClickInputs : FilterByLineage(f)
    \/ RunFilterByLineage
    \/ ResetFilters
    \/ RunResetFilters

SpecRepeat == Init /\ [][NextRepeat]_vars

(***************************************************************************)
(* Run scans: a level's runs over the active list, as the layout effect    *)
(* (normalize by level) and the canvas (rectangles per level) compute them *)
(***************************************************************************)
RunValues == {"P1", "P2", ""}

RunInputs == UNION { [1 .. n -> RunValues] : n \in 0 .. MaxRunLen }

\* records carrying the given values at every level, with distinct keys
RecordsOf(values) ==
    [i \in DOMAIN values |->
        Rec("asm" \o ToString(i), values[i], values[i], values[i], values[i], values[i])]

\* raw[k]?.[level]: undefined past the end of raw
LevelAt(recs, k, level) ==
    IF k < Len(recs) THEN [undef |-> FALSE, v |-> recs[k + 1][level]]
    ELSE [undef |-> TRUE, v |-> ""]

\* x || '' on a string or undefined
OrEmpty(x) == IF x.undef \/ x.v = "" THEN "" ELSE x.v

RECURSIVE ScanRuns(_, _, _, _, _, _, _)
\* for (let k = 1; k < prev.assemblies.length; k++) of the layout effect
ScanRuns(recs, n, level, k, start, cat, acc) ==
    IF k >= n THEN [runs |-> acc, start |-> start, cat |-> cat]
    ELSE LET x == LevelAt(recs, k, level) IN
         IF x.undef \/ x.v # cat
         THEN ScanRuns(recs, n, level, k + 1, k, OrEmpty(x),
                       Append(acc, [cat |-> cat, start |-> start, end |-> k - 1]))
         ELSE ScanRuns(recs, n, level, k + 1, start, cat, acc)

\* the scan with the push after the loop forgotten
LayoutRunsNoLastPush(recs, n, level) ==
    ScanRuns(recs, n, level, 1, 0, OrEmpty(LevelAt(recs, 0, level)), <<>>).runs

\* the runs of the layout effect: recs is prev.raw, n is prev.assemblies.length
LayoutRuns(recs, n, level) ==
    LET s == ScanRuns(recs, n, level, 1, 0, OrEmpty(LevelAt(recs, 0, level)), <<>>)
    IN  Append(s.runs, [cat |-> s.cat, start |-> s.start, end |-> n - 1])

RECURSIVE CanvasScan(_, _, _, _, _, _)
\* for (let k = 1; k < assemblies.length; k++) of the canvas
CanvasScan(data, level, k, start, currentCat, acc) ==
    IF k >= Len(data) THEN [runs |-> acc, start |-> start, cat |-> currentCat]
    ELSE IF data[k + 1][level] # currentCat
         THEN CanvasScan(data, level, k + 1, k, data[k + 1][level],
                         Append(acc, [cat |-> currentCat, start |-> start, end |-> k - 1]))
         ELSE CanvasScan(data, level, k + 1, start, currentCat, acc)

\* the runs the canvas draws for one level; data is state.raw, not empty
CanvasRuns(data, level) ==
    LET s == CanvasScan(data, level, 1, 0, data[1][level], <<>>)
    IN  Append(s.runs, [cat |-> s.cat, start |-> s.start, end |-> Len(data) - 1])

hookVars == <<refVars, geneVars, viewVars, busyVars, envVars>>

InitRuns ==
    /\ InitHook
    /\ InitLayout
    /\ runInput \in RunInputs
    /\ runs = <<>>
    /\ canvasRuns = <<>>

\* the layout effect returns early on an empty list
LayoutEffectRuns ==
    /\ runInput # <<>>
    /\ runs = <<>>
    /\ runs' = LayoutRuns(RecordsOf(runInput), Len(runInput), "phylum")
    /\ UNCHANGED <<hookVars, runInput, canvasRuns, layoutVars>>

\* the canvas returns early when !data.length
CanvasDrawRuns ==
    /\ runInput # <<>>
    /\ canvasRuns = <<>>
    /\ canvasRuns' = CanvasRuns(RecordsOf(runInput), "phylum")
    /\ UNCHANGED <<hookVars, runInput, runs, layoutVars>>

NextRuns ==
    \/ LayoutEffectRuns
    \/ CanvasDrawRuns

SpecRuns == InitRuns /\ [][NextRuns]_vars

(***************************************************************************)
(* Layout: numbers are exact fractions n/d with d > 0; d = 0 stands for    *)
(* the Infinity or NaN a division by zero gives                            *)
(***************************************************************************)
RECURSIVE GCD(_, _)
GCD(a, b) == IF b = 0 THEN a ELSE GCD(b, a % b)

Abs(x) == IF x < 0 THEN -x ELSE x

Num(n, d) ==
    IF d = 0 THEN [n |-> IF n > 0 THEN 1 ELSE IF n < 0 THEN -1 ELSE 0, d |-> 0]
    ELSE LET g == GCD(Abs(n), Abs(d))
             sgn == IF d < 0 THEN -1 ELSE 1
         IN  [n |-> sgn * (n \div g), d |-> sgn * (d \div g)]

\* x / k for an integer k
Div(x, k) == Num(x.n, x.d * k)

\* k * x for an integer k
Times(k, x) == Num(k * x.n, x.d)

\* x + y
Plus(x, y) == Num(x.n * y.d + y.n * x.d, x.d * y.d)

\* const MARGINS = { left: 140, right: 20 } of the layout effect
MARGINS == [left |-> 140, right |-> 20]

\* VISUALIZATION_CONFIG of the DataProcessor
VISUALIZATION_CONFIG == [fixedWidth |-> 1500, margins |-> [left |-> 120, right |-> 16]]

\* the values setNormalizeLevel is called with
LayoutModes == {NullLevel, "__ALL__", "phylum"}

\* the widths the resize observer reports
WidthInputs == {260, 0}

\* Map.prototype.set in list order: the last position of a key wins (1-based)
LastPos(asms, a) ==
    CHOOSE i \in DOMAIN asms : asms[i] = a /\ \A j \in DOMAIN asms : asms[j] = a => j <= i

\* d3.scaleBand().domain(asms).range([0, totalW]).paddingInner(0): the domain
\* keeps the first occurrence of each key; step = (stop - start) / max(1, n)
\* with start < stop the ends of the range, and the bands run from the far end
\* when the range is reversed (totalW < 0)
BandLayout(asms, totalW) ==
    LET n == Cardinality(Range(asms))
        step == Div(Num(Abs(totalW), 1), IF n = 0 THEN 1 ELSE n)
        bandIndex(a) == Cardinality({ asms[j] : j \in 1 .. IndexOf(asms, a) })
    IN  [coordMap |-> [a \in Range(asms) |->
                         IF totalW < 0
                         THEN Plus(Num(totalW, 1), Times(n - 1 - bandIndex(a), step))
                         ELSE Times(bandIndex(a), step)],
         widthMap |-> [a \in Range(asms) |-> step]]

\* w = totalW / asms.length; coordMap.set(a, i * w)
FlatLayout(asms, totalW) ==
    LET w == Div(Num(totalW, 1), Len(asms))
    IN  [coordMap |-> [a \in Range(asms) |-> Times(LastPos(asms, a) - 1, w)],
         widthMap |-> [a \in Range(asms) |-> w]]

\* a by-level layout that ignores the runs and gives every member the same width
LevelLayoutEven(asms, rs, totalW) ==
    LET w == Div(Num(totalW, 1), Len(asms))
    IN  [coordMap |-> [a \in Range(asms) |-> Times(LastPos(asms, a) - 1, w)],
         widthMap |-> [a \in Range(asms) |-> w]]

\* one segment per run for every member at full segment width (no split)
LevelLayoutUnsplit(asms, rs, totalW) ==
    LET segW == Div(Num(totalW, 1), Len(rs))
        runOf(p) == CHOOSE ri \in DOMAIN rs : rs[ri].start <= p /\ p <= rs[ri].end
    IN  [coordMap |-> [a \in Range(asms) |-> Times(runOf(LastPos(asms, a) - 1) - 1, segW)],
         widthMap |-> [a \in Range(asms) |-> segW]]

\* segW = totalW / runs.length; per run: w = segW / arr.length,
\* coordMap.set(a, ri * segW + idx * w), widthMap.set(a, w)
LevelLayout(asms, rs, totalW) ==
    LET segW == Div(Num(totalW, 1), Len(rs))
        runOf(p) == CHOOSE ri \in DOMAIN rs : rs[ri].start <= p /\ p <= rs[ri].end
        w(ri) == Div(segW, rs[ri].end - rs[ri].start + 1)
        place(p) == Plus(Times(runOf(p) - 1, segW), Times(p - rs[runOf(p)].start, w(runOf(p))))
    IN  [coordMap |-> [a \in Range(asms) |-> place(LastPos(asms, a) - 1)],
         widthMap |-> [a \in Range(asms) |-> w(runOf(LastPos(asms, a) - 1))]]

\* the maps the layout effect's updater builds from a non-empty active list
HookLayout(recs, asms, mode, totalW) ==
    IF mode = NullLevel THEN BandLayout(asms, totalW)
    ELSE IF mode = "__ALL__" THEN FlatLayout(asms, totalW)
    ELSE LevelLayout(asms, LayoutRuns(recs, Len(asms), mode), totalW)

\* DataProcessor.buildLayout(assemblies, normalizeLevel): assemblies[0][level]
\* throws a TypeError on an empty list
BuildLayout(data, mode) ==
    LET totalWidth == VISUALIZATION_CONFIG.fixedWidth - VISUALIZATION_CONFIG.margins.left
                        - VISUALIZATION_CONFIG.margins.right
        ids == AssemblyIds(data)
        done(out) == [called |-> TRUE, threw |-> FALSE, input |-> ids, mode |-> mode,
                      coordMap |-> out.coordMap, widthMap |-> out.widthMap]
    IN  IF mode = NullLevel THEN done(BandLayout(ids, totalWidth))
        ELSE IF mode = "__ALL__" THEN done(FlatLayout(ids, totalWidth))
        ELSE IF data = <<>>
             THEN [called |-> TRUE, threw |-> TRUE, input |-> ids, mode |-> mode,
                   coordMap |-> EmptyMap, widthMap |-> EmptyMap]
             ELSE done(LevelLayout(ids, CanvasRuns(data, mode), totalWidth))

\* the dependency array [containerWidth, state.assemblies.length, state.normalizeLevel]
LayoutDeps == <<containerWidth, Len(assemblies), normalizeLevel>>

\* a render has committed dependency values the effect has not run with
LayoutDue == layoutDeps # LayoutDeps

\* the layout effect: its updater runs only for a non-empty list and a
\* positive container width
LayoutEffect ==
    /\ ~crashed
    /\ LayoutDue
    /\ layoutDeps' = LayoutDeps
    /\ IF Len(assemblies) > 0 /\ containerWidth > 0
       THEN LET out == HookLayout(raw, assemblies, normalizeLevel,
                                  containerWidth - MARGINS.left - MARGINS.right)
            IN  coordMap' = out.coordMap /\ widthMap' = out.widthMap
       ELSE UNCHANGED <<coordMap, widthMap>>
    /\ UNCHANGED <<hookVars, runInput, runs, canvasRuns, normalizeLevel, containerWidth, built>>

SetNormalizeLevel(level) ==
    /\ ~crashed
    /\ normalizeLevel' = level
    /\ UNCHANGED <<hookVars, runInput, runs, canvasRuns, containerWidth, coordMap, widthMap,
                   layoutDeps, built>>

\* onWidthChange(width): setContainerWidth(width)
OnWidthChange(width) ==
    /\ ~crashed
    /\ containerWidth' = width
    /\ UNCHANGED <<hookVars, runInput, runs, canvasRuns, normalizeLevel, coordMap, widthMap,
                   layoutDeps, built>>

\* size filters of the layout sessions: a threshold that removes nothing too
LayoutSizeFilterInputs ==
    SizeFilterInputs \cup { [level |-> "phylum", threshold |-> 0] }

\* a search term that names a phylum of the reference records
LayoutSearchInputs == { "P1" }

\* the hook after a reference dataset with the records RecordsOf(runInput) has
\* been loaded and rendered; the layout effect has not yet run for it
InitLoaded ==
    /\ runInput \in RunInputs
    /\ LET jsonData == RecordsOf(runInput) IN
        /\ originalRaw = jsonData
        /\ raw = jsonData
        /\ assemblies = AssemblyIds(jsonData)
        /\ asmCount = Len(jsonData)
        /\ asmIndex = IndexMap(AssemblyIds(jsonData))
    /\ totalInput = 0
    /\ geneNames = <<>>
    /\ matrix = NullMatrix
    /\ countMap = EmptyMap
    /\ geneIndex = EmptyMap
    /\ showPresence = TRUE
    /\ activeGenes = <<>>
    /\ isLoading = FALSE
    /\ loadingMessage = ""
    /\ dataset = DEFAULT_DATASET
    /\ inflight = [f \in Range(DATASETS) |-> 0]
    /\ pending = <<>>
    /\ crashed = FALSE
    /\ InitLayout
    /\ runs = <<>>
    /\ canvasRuns = <<>>

\* passive effects are flushed before the next update is processed
NextLayout ==
    \/ LayoutEffect
    \/ \E m \in LayoutModes : ~LayoutDue /\ SetNormalizeLevel(m)
    \/ \E w \in WidthInputs : ~LayoutDue /\ OnWidthChange(w)
    \/ \E f \in LineageClickInputs : ~LayoutDue /\ FilterByLineage(f)
    \/ ~LayoutDue /\ RunFilterByLineage
    \/ \E f \in LayoutSizeFilterInputs : ~LayoutDue /\ FilterBySize(f)
    \/ ~LayoutDue /\ RunFilterBySize
    \/ ~LayoutDue /\ ResetFilters
    \/ ~LayoutDue /\ RunResetFilters
    \/ \E t \in LayoutSearchInputs : ~LayoutDue /\ SearchLineage(t)
    \/ ~LayoutDue /\ RunSearchLineage

SpecLayout == InitLoaded /\ [][NextLayout]_vars

\* container widths not larger than the two margins together
NarrowWidths == {100, 160}

\* sessions in which the container gets narrow
NextNarrow ==
    \/ LayoutEffect
    \/ \E m \in LayoutModes : ~LayoutDue /\ SetNormalizeLevel(m)
    \/ \E w \in NarrowWidths : ~LayoutDue /\ OnWidthChange(w)

SpecNarrow == InitLoaded /\ [][NextNarrow]_vars

\* DataProcessor.buildLayout applied to the records of runInput
BuildLayoutCall ==
    /\ ~built.called
    /\ \E m \in LayoutModes : built' = BuildLayout(RecordsOf(runInput), m)
    /\ UNCHANGED <<hookVars, runInput, runs, canvasRuns, normalizeLevel, containerWidth,
                   coordMap, widthMap, layoutDeps>>

NextBuild == BuildLayoutCall

SpecBuild == InitRuns /\ [][NextBuild]_vars

(***************************************************************************)
(* Gene selection, and sessions in which operations are dispatched while   *)
(* earlier ones still wait for their timer                                 *)
(***************************************************************************)
\* the sidebar lists state.geneNames
ToggleGeneSelection(gene) ==
    /\ gene \in Range(geneNames)
    /\ Enqueue([op |-> "toggleGeneSelection", gene |-> gene],
               "Processing gene selection...", MaxOverlap)

RunToggleGeneSelection ==
    /\ Fires("toggleGeneSelection")
    /\ LET gene == Head(pending).gene IN
       activeGenes' = IF gene \in Range(activeGenes)
                      THEN Filter(activeGenes, Range(activeGenes) \ {gene})
                      ELSE Append(activeGenes, gene)
    /\ Idle
    /\ UNCHANGED <<refVars, geneVars, showPresence, dataset, inflight, crashed, runVars>>

ToggleAllGenes ==
    Enqueue([op |-> "toggleAllGenes"],
            "Processing " \o (IF Len(activeGenes) > 0 THEN "deselection" ELSE "selection")
                \o " of all genes...", MaxOverlap)

RunToggleAllGenes ==
    /\ Fires("toggleAllGenes")
    /\ activeGenes' = IF Len(activeGenes) > 0 THEN <<>> ELSE geneNames
    /\ Idle
    /\ UNCHANGED <<refVars, geneVars, showPresence, dataset, inflight, crashed, runVars>>

\* calls of the operations modelled above, made from the control panel
OverlapRequests ==
    { [task |-> [op |-> "loadTSVData", doc |-> 1], message |-> "Processing TSV data..."],
      [task |-> [op |-> "filterByLineage", level |-> "phylum", category |-> "P2"],
       message |-> "Filtering by phylum: P2..."],
      [task |-> [op |-> "resetFilters"], message |-> "Resetting filters..."],
      [task |-> [op |-> "addDifferenceVisualization",
                 options |-> [gene1 |-> "gA_count", gene2 |-> "gB_count", useCounts |-> TRUE]],
       message |-> "Creating gene comparison visualization..."] }

\* difference requests stay within the session's bound, also when the
\* selection was cleared in between
DispatchOverlapped(r) ==
    /\ r.task.op = "addDifferenceVisualization" =>
          /\ DiffBudget(r.task.options, MaxDiffs)
          /\ Len(geneNames) + 2 * PendingDiffs <= 2 * MaxDiffs
    /\ Enqueue(r.task, r.message, MaxOverlap)

NextBusy ==
    \/ \E f \in Range(DATASETS) : LoadGTDBData(f)
    \/ \E r \in OverlapRequests : DispatchOverlapped(r)
    \/ \E g \in Range(geneNames) : ToggleGeneSelection(g)
    \/ ToggleAllGenes
    \/ RunLoadTSVData
    \/ RunFilterByLineage
    \/ RunResetFilters
    \/ RunAddDifference
    \/ RunToggleGeneSelection
    \/ RunToggleAllGenes

SpecBusy == Init /\ [][NextBusy]_vars

(***************************************************************************)
(* Sessions of filter and search requests issued while earlier requests    *)
(* still wait.  Each queued request also records the active list it was    *)
(* issued against (seen) and the requests waiting at that moment (before); *)
(* the updaters read neither.                                              *)
(***************************************************************************)
FilterRequests ==
    { [task |-> [op |-> "filterByLineage", level |-> "phylum", category |-> "P2"],
       message |-> "Filtering by phylum: P2..."],
      [task |-> [op |-> "filterBySize", level |-> "phylum", threshold |-> 2],
       message |-> "Filtering by phylum size (min: 2)..."],
      [task |-> [op |-> "searchLineage", term |-> "P1"],
       message |-> "Searching for lineage: P1..."],
      [task |-> [op |-> "searchLineage", term |-> "Q9"],
       message |-> "Searching for lineage: Q9..."] }

\* a queued request without what it recorded
Request(t) == [f \in DOMAIN t \ {"seen", "before"} |-> t[f]]

RequestFilter(r) ==
    Enqueue(r.task @@ [seen |-> raw, before |-> [i \in DOMAIN pending |-> Request(pending[i])]],
            r.message, MaxOverlap)

NextFilters ==
    \/ \E r \in FilterRequests : RequestFilter(r)
    \/ RunFilterByLineage
    \/ RunFilterBySize
    \/ RunSearchLineage

SpecFilters == InitLoaded /\ [][NextFilters]_vars

(***************************************************************************)
(* Sessions in which the dataset is switched and every fetch succeeds      *)
(***************************************************************************)
NextSwitch ==
    \/ \E f \in Range(DATASETS) : SetDataset(f)
    \/ \E f \in Range(DATASETS) : LoadGTDBData(f)
    \/ \E d \in TsvInputs : LoadTSVData(d)
    \/ RunLoadTSVData
    \/ \E f \in LineageClickInputs : FilterByLineage(f)
    \/ RunFilterByLineage
    \/ ResetFilters
    \/ RunResetFilters

SpecSwitch == Init /\ [][NextSwitch]_vars

(***************************************************************************)
(* Sessions on gene counts that cover a part of the reference assemblies   *)
(***************************************************************************)
NextPartial ==
    \/ \E f \in Range(DATASETS) : LoadGTDBData(f)
    \/ \E d \in PartialTsvInputs : LoadTSVData(d)
    \/ RunLoadTSVData
    \/ TogglePresence
    \/ \E o \in DiffOptionInputs : DiffBudget(o, MaxDiffs) /\ HandleAddDifference(o)
    \/ RunAddDifference
    \/ \E f \in LineageClickInputs : FilterByLineage(f)
    \/ RunFilterByLineage
    \/ FilterAllZeroAssemblies
    \/ RunFilterAllZeroAssemblies
    \/ ResetFilters
    \/ RunResetFilters

SpecPartial == Init /\ [][NextPartial]_vars

(***************************************************************************)
(* Properties                                                              *)
(***************************************************************************)
\* the matrix holds a 1 at (gene ordinal gi, assembly ordinal ai)
CellIs1(gi, ai) ==
    /\ ~matrix.isNull
    /\ gi * asmCount + ai < Len(matrix.cells)
    /\ matrix.cells[gi * asmCount + ai + 1] = 1

\* the count the companion mapping records for (assembly, gene), 0 when absent
CountOf(a, g) ==
    IF a \in DOMAIN countMap /\ g \in DOMAIN countMap[a] THEN countMap[a][g] ELSE 0

\* this step runs the deferred updater of a valid difference request to completion
DiffRan ==
    /\ pending # <<>>
    /\ Head(pending).op = "addDifferenceVisualization"
    /\ Head(pending).options.gene1 # ""
    /\ Head(pending).options.gene2 # ""
    /\ Head(pending).options.gene1 # Head(pending).options.gene2
    /\ pending' = Tail(pending)
    /\ ~crashed'

\* this step runs the deferred updater of an invalid difference request
InvalidDiffRan ==
    /\ pending # <<>>
    /\ Head(pending).op = "addDifferenceVisualization"
    /\ \/ Head(pending).options.gene1 = ""
       \/ Head(pending).options.gene2 = ""
       \/ Head(pending).options.gene1 = Head(pending).options.gene2
    /\ pending' = Tail(pending)

\* C1: in every reachable state, for every assembly a and gene g with an
\* ordinal, the cell at (geneIndex[g], asmIndex[a]) is 1 iff countMap[a][g] > 0
C1_MatrixMatchesCounts ==
    \A a \in DOMAIN asmIndex : \A g \in DOMAIN geneIndex :
        CellIs1(geneIndex[g], asmIndex[a]) <=> CountOf(a, g) > 0

\* C2: whenever a matrix exists it holds exactly geneNames.length * asmCount cells
C2_MatrixDimensions ==
    ~matrix.isNull => Len(matrix.cells) = Len(geneNames) * asmCount

\* C3: toggling a matrix twice gives a matrix of the same length whose every
\* cell equals the original cell
C3_ToggleInvolution ==
    ~matrix.isNull =>
        /\ Len(FlipCells(FlipCells(matrix.cells))) = Len(matrix.cells)
        /\ \A i \in DOMAIN matrix.cells :
               FlipCells(FlipCells(matrix.cells))[i] = matrix.cells[i]

\* C3 witness: the toggle has acted on a matrix holding both values
C3_Witness ==
    /\ ~matrix.isNull
    /\ ~showPresence
    /\ \E i, j \in DOMAIN matrix.cells : matrix.cells[i] = 1 /\ matrix.cells[j] = 0

\* C4: after a valid difference request has run, for every assembly with an
\* ordinal (active or not) the first new row's cell is 1 iff c1 > c2 (counts) or
\* c1 > 0 and c2 = 0 (presence), and the second row's likewise with c1, c2 swapped
C4_DifferenceRowsFollowCounts ==
    [][DiffRan =>
        LET o == Head(pending).options
            oldN == Len(geneNames)
        IN  \A a \in DOMAIN asmIndex :
              LET c1 == CountOf(a, o.gene1)
                  c2 == CountOf(a, o.gene2)
                  row1 == matrix'.cells[oldN * asmCount + asmIndex[a] + 1] = 1
                  row2 == matrix'.cells[(oldN + 1) * asmCount + asmIndex[a] + 1] = 1
              IN  IF o.useCounts
                  THEN (row1 <=> c1 > c2) /\ (row2 <=> c2 > c1)
                  ELSE (row1 <=> (c1 > 0 /\ c2 = 0)) /\ (row2 <=> (c2 > 0 /\ c1 = 0))]_vars

\* C5: right after a valid difference request has run, no assembly has the
\* cell of both synthesized rows equal to 1
C5_DifferenceRowsExclusive ==
    [][DiffRan =>
        LET oldN == Len(geneNames) IN
        \A a \in DOMAIN asmIndex :
            ~ /\ matrix'.cells[oldN * asmCount + asmIndex[a] + 1] = 1
              /\ matrix'.cells[(oldN + 1) * asmCount + asmIndex[a] + 1] = 1]_vars

\* C6: each synthesized name differs from every gene name that existed before
\* the request ran, so difference synthesis adds no duplicate to geneNames
C6_SynthesizedNamesFresh ==
    [][DiffRan =>
        LET oldN == Len(geneNames) IN
        /\ geneNames'[oldN + 1] \notin Range(geneNames)
        /\ geneNames'[oldN + 2] \notin Range(geneNames)]_vars

\* C7: a name that has an ordinal in the gene index keeps that ordinal when a
\* difference request registers names
C7_OrdinalsStable ==
    [][DiffRan =>
        \A n \in DOMAIN geneIndex :
            n \in DOMAIN geneIndex' /\ geneIndex'[n] = geneIndex[n]]_vars

\* C8: a difference request that has run leaves every cell of a previously
\* existing gene row unchanged, at the same gene and assembly ordinal: a cell the
\* old array held keeps its value, and a cell reads as 1 after iff it did before
C8_ExistingRowsUnchanged ==
    [][DiffRan =>
        /\ asmCount' = asmCount
        /\ SubSeq(geneNames', 1, Len(geneNames)) = geneNames
        /\ \A g \in 0 .. Len(geneNames) - 1 : \A a \in 0 .. asmCount - 1 :
              /\ g * asmCount + a < Len(matrix.cells) =>
                    matrix'.cells[g * asmCount + a + 1] = matrix.cells[g * asmCount + a + 1]
              /\ matrix'.cells[g * asmCount + a + 1] = 1 <=> CellIs1(g, a)]_vars

\* C8 witness: two rows were appended behind gene rows that hold a 1
C8_Witness ==
    /\ ~matrix.isNull
    /\ Len(geneNames) >= 3
    /\ geneNames[Len(geneNames) - 1] \in {"gA>gB", "gA-gB"}
    /\ Len(matrix.cells) = Len(geneNames) * asmCount
    /\ \E i \in 1 .. (Len(geneNames) - 2) * asmCount : matrix.cells[i] = 1

\* C9: a difference request whose genes are equal, or one of which is empty,
\* changes none of geneNames, geneIndex, matrix, countMap and activeGenes
C9_InvalidRequestIsNoOp ==
    [][InvalidDiffRan =>
        UNCHANGED <<geneNames, geneIndex, matrix, countMap, activeGenes>>]_vars

\* C9 witness: an invalid request is about to run on loaded gene data
C9_Witness ==
    /\ pending # <<>>
    /\ Head(pending).op = "addDifferenceVisualization"
    /\ Head(pending).options.gene1 = Head(pending).options.gene2
    /\ ~matrix.isNull
    /\ geneNames # <<>>
    /\ isLoading

\* the runs, in order, partition [0, n-1], carry the value of every index they
\* cover, and no two adjacent runs share a value
RunsPartition(rs, values) ==
    /\ rs # <<>>
    /\ rs[1].start = 0
    /\ rs[Len(rs)].end = Len(values) - 1
    /\ \A i \in DOMAIN rs :
          /\ rs[i].start <= rs[i].end
          /\ \A k \in rs[i].start .. rs[i].end : values[k + 1] = rs[i].cat
    /\ \A i \in 1 .. Len(rs) - 1 :
          /\ rs[i + 1].start = rs[i].end + 1
          /\ rs[i + 1].cat # rs[i].cat

\* C10: for every non-empty sequence of level values the computed runs
\* partition [0, n-1] without gap or overlap, every index carries its run's
\* value, and adjacent runs differ in value
C10_RunsPartitionInput ==
    /\ runs # <<>> => RunsPartition(runs, runInput)
    /\ canvasRuns # <<>> => RunsPartition(canvasRuns, runInput)

\* C10 witness: [P1, P1, P2, P1] gives three runs, the two P1 runs not merged
C10_Witness ==
    /\ runInput = <<"P1", "P1", "P2", "P1">>
    /\ runs = << [cat |-> "P1", start |-> 0, end |-> 1],
                 [cat |-> "P2", start |-> 2, end |-> 2],
                 [cat |-> "P1", start |-> 3, end |-> 3] >>
    /\ canvasRuns = runs

(***************************************************************************)
(* Layout properties                                                       *)
(***************************************************************************)
\* this step is the layout effect running its updater
LayoutRan ==
    /\ LayoutDue
    /\ Len(assemblies) > 0
    /\ containerWidth > 0
    /\ layoutDeps' = LayoutDeps

\* the width the layout divides
TotalW == Num(containerWidth - MARGINS.left - MARGINS.right, 1)

\* the value of the active record at (1-based) position i at the layout level
LevelValue(i) == raw[i][normalizeLevel]

\* positions at which a maximal stretch of equal adjacent values begins
BlockStarts ==
    { i \in DOMAIN raw : i = 1 \/ LevelValue(i) # LevelValue(i - 1) }

\* the start of the stretch position i lies in
BlockStartOf(i) ==
    CHOOSE b \in BlockStarts : b <= i /\ \A c \in BlockStarts : c <= i => c <= b

\* the positions of the stretch position i lies in
BlockOf(i) == { j \in DOMAIN raw : BlockStartOf(j) = BlockStartOf(i) }

RECURSIVE SumOver(_, _)
\* the sum of f over the positions in S
SumOver(f, S) ==
    IF S = {} THEN Num(0, 1)
    ELSE LET x == CHOOSE y \in S : TRUE IN Plus(f[x], SumOver(f, S \ {x}))

\* the width the new layout gives the member at each position
NewWidths == [i \in DOMAIN assemblies |-> widthMap'[assemblies[i]]]

C12_SegmentsPerRun ==
    [][(LayoutRan /\ normalizeLevel \in Range(ALL_LEVELS)) =>
        LET R == Cardinality(BlockStarts)
            segW == Div(TotalW, R)
        IN  \A i \in DOMAIN raw :
              LET s == BlockStartOf(i)
                  L == Cardinality(BlockOf(i))
                  ri == Cardinality({ b \in BlockStarts : b < s })
                  w == Div(segW, L)
              IN  /\ widthMap'[assemblies[i]] = w
                  /\ coordMap'[assemblies[i]] = Plus(Times(ri, segW), Times(i - s, w))]_vars

\* C12 witness: totalWidth 100 over [P1, P1, P2, P1]: 50/3, 50/3, 100/3, 100/3
C12_Witness ==
    /\ ~LayoutDue
    /\ normalizeLevel = "phylum"
    /\ containerWidth = 260
    /\ runInput = <<"P1", "P1", "P2", "P1">>
    /\ assemblies = AssemblyIds(RecordsOf(runInput))
    /\ widthMap = [a \in Range(assemblies) |->
                     IF a \in {assemblies[1], assemblies[2]} THEN Num(50, 3) ELSE Num(100, 3)]
    /\ coordMap[assemblies[4]] = Num(200, 3)

\* C13: in the unnormalized and the flat-equal mode the widths of all active
\* assemblies sum to the total available width, for any non-empty active list
C13_WidthConservation ==
    [][(LayoutRan /\ normalizeLevel \in {NullLevel, "__ALL__"}) =>
        SumOver(NewWidths, DOMAIN assemblies) = TotalW]_vars

\* C14: once the layout effect has run for the committed list, width and mode
\* (here: for a positive width), the keys of coordMap and of widthMap are
\* exactly the currently active assemblies
C14_LayoutKeysAreActive ==
    (~LayoutDue /\ containerWidth > 0) =>
        /\ DOMAIN coordMap = Range(assemblies)
        /\ DOMAIN widthMap = Range(assemblies)

\* C15: a layout computed for an empty active list is an empty coordinate map,
\* in every mode, and the computation does not throw
C15_EmptyListEmptyLayout ==
    (built.called /\ built.input = <<>>) =>
        /\ ~built.threw
        /\ built.coordMap = EmptyMap
        /\ built.widthMap = EmptyMap

(***************************************************************************)
(* Load and filter properties                                              *)
(***************************************************************************)
\* this step runs the deferred updater of loadTSVData
TsvRan ==
    /\ pending # <<>>
    /\ Head(pending).op = "loadTSVData"
    /\ pending' = Tail(pending)

\* C16: after a TSV load geneNames is the header without its first column, in
\* header order, and for every row whose key is a reference assembly and every
\* such gene the cell is 1 iff the parsed count is > 0 and countMap holds the
\* parsed count
C16_TsvLoadResult ==
    [][TsvRan =>
        LET doc == TsvDocs[Head(pending).doc]
            header == doc[1]
            keyed == { k \in 2 .. Len(doc) : doc[k] # <<"">> /\ doc[k][1] \in DOMAIN asmIndex }
        IN  /\ geneNames' = Tail(header)
            /\ \A k \in keyed : \A j \in 2 .. Len(header) :
                  LET a == doc[k][1]
                      g == header[j]
                      cnt == OrZero(UnaryPlus(doc[k], j - 1))
                  IN  /\ a \in DOMAIN countMap'
                      /\ g \in DOMAIN countMap'[a]
                      /\ countMap'[a][g] = cnt
                      /\ g \in DOMAIN geneIndex'
                      /\ (matrix'.cells[geneIndex'[g] * asmCount + asmIndex[a] + 1] = 1)
                            <=> cnt > 0]_vars

\* this step runs the deferred updater of filterAllZeroAssemblies
ZeroFilterRan ==
    /\ pending # <<>>
    /\ Head(pending).op = "filterAllZeroAssemblies"
    /\ pending' = Tail(pending)

\* the record's assembly has a count entry with a gene counted more than zero
Covered(d) ==
    /\ d.assembly \in DOMAIN countMap
    /\ \E g \in DOMAIN countMap[d.assembly] : countMap[d.assembly][g] > 0

\* sub is what is left of full after removing elements, order kept
InOrderOf(sub, full) ==
    \A i, j \in DOMAIN sub : i < j => IndexOf(full, sub[i]) < IndexOf(full, sub[j])

\* C17: the zero-coverage filter keeps a record of the active list iff countMap
\* has an entry for its assembly with some count > 0; the kept records keep
\* their order
C17_ZeroFilterKeepsCovered ==
    [][ZeroFilterRan =>
        /\ \A i \in DOMAIN raw : raw[i] \in Range(raw') <=> Covered(raw[i])
        /\ Range(raw') \subseteq Range(raw)
        /\ InOrderOf(raw', raw)
        /\ assemblies' = AssemblyIds(raw')]_vars

\* C17 witness: the filter is about to run on an active list holding a record
\* whose assembly has no count entry and a record that is covered
C17_Witness ==
    /\ pending # <<>>
    /\ Head(pending).op = "filterAllZeroAssemblies"
    /\ \E i \in DOMAIN raw : raw[i].assembly \notin DOMAIN countMap
    /\ \E i \in DOMAIN raw : Covered(raw[i])

\* this step runs the deferred updater of filterBySize
SizeFilterRan ==
    /\ pending # <<>>
    /\ Head(pending).op = "filterBySize"
    /\ pending' = Tail(pending)

\* the number of active records sharing d's value at the level
SharedAtLevel(d, level) ==
    Cardinality({ i \in DOMAIN raw : raw[i][level] = d[level] })

\* C18: the size filter keeps a record of the active list iff at least
\* threshold active records share its value at the level, order kept; with a
\* threshold <= 0 the active list is unchanged
C18_SizeFilterKeepsLarge ==
    [][SizeFilterRan =>
        LET t == Head(pending) IN
        /\ \A i \in DOMAIN raw :
              raw[i] \in Range(raw') <=> SharedAtLevel(raw[i], t.level) >= t.threshold
        /\ Range(raw') \subseteq Range(raw)
        /\ InOrderOf(raw', raw)
        /\ assemblies' = AssemblyIds(raw')
        /\ t.threshold <= 0 => (raw' = raw /\ assemblies' = assemblies)]_vars

\* C18 witness: the filter is about to run with threshold 2 on a list holding a
\* value shared by two records and a value only one record has
C18_Witness ==
    /\ pending # <<>>
    /\ Head(pending).op = "filterBySize"
    /\ Head(pending).threshold = 2
    /\ \E i \in DOMAIN raw : SharedAtLevel(raw[i], "phylum") = 2
    /\ \E i \in DOMAIN raw : SharedAtLevel(raw[i], "phylum") = 1

\* this step runs the deferred updater of one of the four filters
FilterRan ==
    /\ pending # <<>>
    /\ Head(pending).op \in {"filterByLineage", "filterBySize",
                             "filterAllZeroAssemblies", "searchLineage"}
    /\ pending' = Tail(pending)

\* this step runs the deferred updater of resetFilters
ResetRan ==
    /\ pending # <<>>
    /\ Head(pending).op = "resetFilters"
    /\ pending' = Tail(pending)

\* C19: no filter changes originalRaw, and resetFilters makes raw equal to
\* originalRaw and assemblies equal to its assembly ids, in order
C19_FiltersReversible ==
    [][/\ FilterRan => originalRaw' = originalRaw
       /\ ResetRan => /\ originalRaw' = originalRaw
                      /\ raw' = originalRaw
                      /\ assemblies' = AssemblyIds(originalRaw)]_vars

\* C19 witness: resetFilters is about to run on a list that filters have cut
C19_Witness ==
    /\ pending # <<>>
    /\ Head(pending).op = "resetFilters"
    /\ originalRaw # <<>>
    /\ Len(raw) < Len(originalRaw)

\* C20: isLoading is true in every state in which a deferred updater starts
C20_BusyWhenDeferredStarts ==
    [][(pending # <<>> /\ pending' = Tail(pending)) => isLoading]_vars

(***************************************************************************)
(* Overlapping requests                                                    *)
(***************************************************************************)
\* what the request t keeps of the list recs
Kept(t, recs) ==
    IF t.op = "filterByLineage"
    THEN Filter(recs, { d \in Range(recs) : d[t.level] = t.category })
    ELSE IF t.op = "filterBySize"
    THEN Filter(recs, { d \in Range(recs) :
                          Cardinality({ i \in DOMAIN recs : recs[i][t.level] = d[t.level] })
                              >= t.threshold })
    ELSE LET found == { i \in DOMAIN ALL_LEVELS :
                          \E d \in Range(originalRaw) : d[ALL_LEVELS[i]] = t.term }
         IN  IF found = {} THEN recs
             ELSE LET level == ALL_LEVELS[CHOOSE i \in found : \A j \in found : i <= j]
                  IN  Filter(recs, { d \in Range(recs) : d[level] = t.term })

RECURSIVE KeptByAll(_, _)
\* the requests of ts applied one after the other, first to last
KeptByAll(ts, recs) ==
    IF ts = <<>> THEN recs ELSE KeptByAll(Tail(ts), Kept(Head(ts), recs))

\* this step runs the updater of a request that was issued while earlier
\* requests were still waiting
OverlappedRan ==
    /\ pending # <<>>
    /\ "before" \in DOMAIN Head(pending)
    /\ Head(pending).before # <<>>
    /\ pending' = Tail(pending)

\* C21 as stated: when a request was issued before an earlier request's
\* deferred task ran, the task that completes last alone decides the active
\* list: the list is that request applied to the list it was issued against
C21_LastWriteWins ==
    [][OverlappedRan =>
        LET t == Head(pending) IN
        /\ raw' = Kept(t, t.seen)
        /\ assemblies' = AssemblyIds(raw')]_vars

\* C21 amended: the requests combine; the list after the later task is the
\* later request applied to what the earlier waiting requests, in the order they
\* were issued, left of the list the later request was issued against
C21_RequestsCompose ==
    [][OverlappedRan =>
        LET t == Head(pending) IN
        /\ raw' = Kept(t, KeptByAll(t.before, t.seen))
        /\ assemblies' = AssemblyIds(raw')]_vars

\* C21 witness: a request issued behind a waiting one is about to run; the
\* earlier request has cut the list, and the later one alone would keep
\* something else than it keeps now
C21_Witness ==
    /\ pending # <<>>
    /\ "before" \in DOMAIN Head(pending)
    /\ Head(pending).before # <<>>
    /\ raw # Head(pending).seen
    /\ Kept(Head(pending), raw) # Kept(Head(pending), Head(pending).seen)

(***************************************************************************)
(* Degenerate widths                                                       *)
(***************************************************************************)
\* C22: when the total available width is <= 0 the layout computation assigns
\* width 0 to every active assembly, and no assembly gets a negative width or a
\* negative offset
C22_NarrowGivesZeroWidths ==
    [][(LayoutRan /\ containerWidth <= MARGINS.left + MARGINS.right) =>
        \A a \in Range(assemblies) :
            /\ a \in DOMAIN widthMap' /\ a \in DOMAIN coordMap'
            /\ widthMap'[a] = Num(0, 1)
            /\ coordMap'[a].n >= 0]_vars

(***************************************************************************)
(* Exact-match filters                                                     *)
(***************************************************************************)
\* this step runs the deferred updater of filterByLineage
LineageRan ==
    /\ pending # <<>>
    /\ Head(pending).op = "filterByLineage"
    /\ pending' = Tail(pending)

\* this step runs the deferred updater of searchLineage
SearchRan ==
    /\ pending # <<>>
    /\ Head(pending).op = "searchLineage"
    /\ pending' = Tail(pending)

\* the levels at which some reference record carries the term
FoundAt(term) ==
    { l \in Range(ALL_LEVELS) : \E i \in DOMAIN originalRaw : originalRaw[i][l] = term }

\* the first of these levels in the order of ALL_LEVELS
ResolvedLevel(term) ==
    ALL_LEVELS[CHOOSE i \in DOMAIN ALL_LEVELS :
                  /\ ALL_LEVELS[i] \in FoundAt(term)
                  /\ \A j \in 1 .. i - 1 : ALL_LEVELS[j] \notin FoundAt(term)]

\* the new active list is exactly the records of the old one whose value at
\* the level equals c, in unchanged order
KeepsExactly(level, c) ==
    /\ \A i \in DOMAIN raw : raw[i] \in Range(raw') <=> raw[i][level] = c
    /\ Range(raw') \subseteq Range(raw)
    /\ InOrderOf(raw', raw)
    /\ assemblies' = AssemblyIds(raw')

\* C23: filterByLineage(level, c), and searchLineage(c) for a term found in the
\* reference set, leave exactly the records of the previous active list whose
\* value at the given (or resolved) level equals c, in unchanged order;
\* searchLineage for a term found at no level leaves raw and assemblies unchanged
C23_ExactMatchFilters ==
    [][/\ LineageRan => KeepsExactly(Head(pending).level, Head(pending).category)
       /\ SearchRan =>
             IF FoundAt(Head(pending).term) # {}
             THEN KeepsExactly(ResolvedLevel(Head(pending).term), Head(pending).term)
             ELSE raw' = raw /\ assemblies' = assemblies]_vars

\* C23 witness: a search for a genus of the reference set is about to run on a
\* list that holds a record of that genus and a record of another one
C23_Witness ==
    /\ pending # <<>>
    /\ Head(pending).op = "searchLineage"
    /\ FoundAt(Head(pending).term) = {"genus"}
    /\ \E i, j \in DOMAIN raw : /\ raw[i].genus = Head(pending).term
                                /\ raw[j].genus # Head(pending).term

(***************************************************************************)
(* The presence flag                                                       *)
(***************************************************************************)
\* the count a companion mapping records for (assembly, gene), 0 when absent
CountIn(cmap, a, g) ==
    IF a \in DOMAIN cmap /\ g \in DOMAIN cmap[a] THEN cmap[a][g] ELSE 0

\* C24: showPresence is false exactly when every matrix row holds the inverted
\* bits (cell = 1 iff count = 0), also after loadTSVData or
\* addDifferenceVisualization has run while showPresence is false
C24_FlagMatchesMatrix ==
    [][((TsvRan \/ DiffRan) /\ ~showPresence) =>
        /\ ~showPresence'
        /\ \A gi \in DOMAIN geneNames' : \A a \in DOMAIN asmIndex' :
              LET idx == (gi - 1) * asmCount' + asmIndex'[a] + 1 IN
              /\ idx \in DOMAIN matrix'.cells
              /\ matrix'.cells[idx] = 1 <=> CountIn(countMap', a, geneNames'[gi]) = 0]_vars

(***************************************************************************)
(* The active list and its id list                                         *)
(***************************************************************************)
\* C25: in every reachable state assemblies has the length of raw and
\* assemblies[k] is the assembly id of raw[k], so the by-level layout pairs each
\* key with its own record
C25_IdsFollowRecords ==
    /\ Len(assemblies) = Len(raw)
    /\ \A k \in DOMAIN raw : assemblies[k] = raw[k].assembly

\* C25 witness: a filter has removed the first reference record, so the
\* positions of the active list are no longer those of the reference list
C25_Witness ==
    /\ raw # <<>>
    /\ Len(raw) < Len(originalRaw)
    /\ raw[1] # originalRaw[1]
    /\ assemblies[1] = raw[1].assembly

(***************************************************************************)
(* Dataset switches                                                        *)
(***************************************************************************)
\* C26: once every fetch has completed, in whatever order the responses
\* arrived, originalRaw, raw, asmIndex and asmCount are those of the selected
\* dataset
C26_SelectedDatasetLoaded ==
    (\A f \in Range(DATASETS) : inflight[f] = 0) =>
        LET jsonData == DatasetJson(dataset) IN
        /\ originalRaw = jsonData
        /\ Range(raw) \subseteq Range(jsonData)
        /\ asmCount = Len(jsonData)
        /\ DOMAIN asmIndex = { jsonData[i].assembly : i \in DOMAIN jsonData }
        /\ \A i \in DOMAIN jsonData : asmIndex[jsonData[i].assembly] = i - 1

(***************************************************************************)
(* Coverage                                                                *)
(***************************************************************************)
\* C27: addDifferenceVisualization adds no assembly key to countMap, and
\* countMap.size <= totalInput in every reachable state
C27_CountKeysFromTsv ==
    [][/\ DiffRan => DOMAIN countMap' \subseteq DOMAIN countMap
       /\ Cardinality(DOMAIN countMap') <= totalInput']_vars

(***************************************************************************)
(* The gene selection                                                      *)
(***************************************************************************)
\* C28: in every reachable state activeGenes holds no name twice and only
\* names of geneNames
C28_ActiveGenesValid ==
    /\ \A i, j \in DOMAIN activeGenes : activeGenes[i] = activeGenes[j] => i = j
    /\ Range(activeGenes) \subseteq Range(geneNames)

(***************************************************************************)
(* The busy indicator                                                      *)
(***************************************************************************)
\* C29: whenever no deferred operation is pending, isLoading is false: every
\* deferred step that was started has finished and cleared the indicator
C29_IdleWhenNothingPending ==
    pending = <<>> => ~isLoading

(***************************************************************************)
(* Tiling                                                                  *)
(***************************************************************************)
\* C30: every layout computed over a non-empty active list with distinct keys
\* tiles the width in list order, in every mode: the first offset is 0, every
\* following offset is the previous offset plus the previous width, and the
\* last offset plus width is the total width
C30_LayoutTilesWidth ==
    [][LayoutRan =>
        LET n == Len(assemblies)
            off(i) == coordMap'[assemblies[i]]
            wid(i) == widthMap'[assemblies[i]]
        IN  /\ off(1) = Num(0, 1)
            /\ \A i \in 2 .. n : off(i) = Plus(off(i - 1), wid(i - 1))
            /\ Plus(off(n), wid(n)) = TotalW]_vars

====
